---- MODULE Spec2Model ----
(***************************************************************************)
(* Model of src/index.ts: the pull-request review pipeline                 *)
(*   getPullRequestDiff -> createPrompt (createIgnorePrReviewsPrompt)      *)
(*   -> getAiReviewContent -> JSON.parse -> postReviewComments.            *)
(* One action per event-loop turn: the start of main and the continuation  *)
(* run when an outstanding request settles.                                *)
(***************************************************************************)
EXTENDS Integers, Sequences, FiniteSets, TLC

\* ------------------------------------------------------------------ bounds
MaxFiles == 2
MaxReviews == 2
MaxComments == 2
MaxCommits == 2

\* ------------------------------------------------------- input universes
\* sequences over S of length at most n, without repeated elements
SeqsUpTo(S, n) ==
  { s \in UNION {[1..k -> S] : k \in 0..n} :
      \A i, j \in DOMAIN s : s[i] = s[j] => i = j }

\* sequences over S of length at most n
AllSeqsUpTo(S, n) == UNION {[1..k -> S] : k \in 0..n}

\* LineReview entries the model service may return
LineReviews ==
  { [lineNumber |-> 42, reviewComment |-> "MUST: remove unused variable"],
    [lineNumber |-> 7, reviewComment |-> "NITS: rename"] }

FileNames == {"app.ts", "lib.ts"}

\* A file entry of the decoded model output; hasReviews = FALSE stands for an
\* entry whose "reviews" property is missing (file.reviews is undefined).
FileEntries ==
  { [fileName |-> n, hasReviews |-> TRUE, reviews |-> r] :
      n \in FileNames, r \in SeqsUpTo(LineReviews, MaxReviews) }
  \cup { [fileName |-> n, hasReviews |-> FALSE, reviews |-> << >>] : n \in FileNames }

\* Values JSON.parse can produce: null (isObject = FALSE), an object without a
\* "files" property, an object with a "files" array.
JsonNull == [isObject |-> FALSE, hasFiles |-> FALSE, files |-> << >>]
JsonNoFiles == [isObject |-> TRUE, hasFiles |-> FALSE, files |-> << >>]
JsonValues ==
  {JsonNull, JsonNoFiles}
  \cup { [isObject |-> TRUE, hasFiles |-> TRUE, files |-> f] :
           f \in AllSeqsUpTo(FileEntries, MaxFiles) }

\* message.content of the first completion: null, "" or a text.  A text either
\* is the serialisation of a JSON value (valid) or is no JSON at all.
ContentNull == [kind |-> "null", valid |-> FALSE, value |-> JsonNull]
ContentEmpty == [kind |-> "empty", valid |-> FALSE, value |-> JsonNull]
ContentTruncated == [kind |-> "text", valid |-> FALSE, value |-> JsonNull]
Contents ==
  {ContentNull, ContentEmpty, ContentTruncated}
  \cup { [kind |-> "text", valid |-> TRUE, value |-> v] : v \in JsonValues }

\* Comments the hosting API lists for the pull request; line = 0 stands for a
\* null "line" attribute (`||` treats both as falsy).
ApiComments ==
  { [path |-> "app.ts", line |-> 0, original_line |-> 7, body |-> "old remark"],
    [path |-> "lib.ts", line |-> 5, original_line |-> 3, body |-> "dup remark"] }

CommentLists == SeqsUpTo(ApiComments, MaxComments)

Shas == {"sha1", "sha2"}
CommitLists == SeqsUpTo([sha : Shas], MaxCommits)

\* The error axios.post rejects with: no response at all, a response without
\* a body, a body without an errors list, or a body with nErrors entries.
PostErrors ==
  { [hasResponse |-> FALSE, hasData |-> FALSE, hasErrors |-> FALSE, nErrors |-> 0],
    [hasResponse |-> TRUE, hasData |-> FALSE, hasErrors |-> FALSE, nErrors |-> 0],
    [hasResponse |-> TRUE, hasData |-> TRUE, hasErrors |-> FALSE, nErrors |-> 0],
    [hasResponse |-> TRUE, hasData |-> TRUE, hasErrors |-> TRUE, nErrors |-> 1],
    [hasResponse |-> TRUE, hasData |-> TRUE, hasErrors |-> TRUE, nErrors |-> 2] }

\* Node's --unhandled-rejections mode: "throw" ends the process on an
\* unhandled rejection, "warn" only prints a warning.
RejectionModes == {"throw", "warn"}

\* ----------------------------------------------------------------- strings
\* A string is a sequence of tokens; a token is a literal line or one
\* rendered item of the de-duplication clause.
Text(s) == [kind |-> "text", path |-> "", line |-> 0, body |-> s]
Item(p, l, b) == [kind |-> "item", path |-> p, line |-> l, body |-> b]

IgnoreHeader ==
  Text("- However, please ensure the content does not duplicate the following existing comments:")

codeDiffText == Text("<diff>")

\* variant: comment.original_line || comment.line
CommentLine_OriginalFirst(comment) ==
  IF comment.original_line # 0 THEN comment.original_line ELSE comment.line

\* comment.line || comment.original_line
CommentLine(comment) ==
  IF comment.line # 0 THEN comment.line ELSE comment.original_line

\* The value createIgnorePrReviewsPrompt resolves to for response.data = comments
IgnorePromptText(comments) ==
  IF Len(comments) = 0
    THEN << >>
    ELSE <<IgnoreHeader>> \o
         [i \in 1..Len(comments) |->
            Item(comments[i].path, CommentLine(comments[i]), comments[i].body)]

PendingPromise == [state |-> "pending", value |-> << >>]

\* The string operand `+=` appends: a string as it is, a Promise object as
\* "[object Promise]" whatever its state or value.
ToStringJS(v) ==
  IF v.state = "string" THEN v.value ELSE <<Text("[object Promise]")>>

\* createPrompt(codeDiff, language) where ignore is what the call
\* createIgnorePrReviewsPrompt() returned
createPrompt(codeDiff, language, ignore) ==
  << Text("Review the following code:"), codeDiff,
     Text("- Be sure to comment on areas for improvement."),
     Text("- Please make review comments in"), Text(language),
     Text("- Please prefix your review comments with one of the following labels"),
     Text("- The following json format should be followed."),
     Text("- If there is no review comment, please answer {files:[]}") >>
  \o ToStringJS(ignore)

\* ------------------------------------------------------------ numbers
RECURSIVE NumberToString(_)
NumberToString(n) ==
  IF n < 10 THEN <<n>> ELSE NumberToString(n \div 10) \o <<n % 10>>

RECURSIVE DigitsToNumber(_)
DigitsToNumber(d) ==
  IF Len(d) = 0 THEN 0
  ELSE 10 * DigitsToNumber(SubSeq(d, 1, Len(d) - 1)) + d[Len(d)]

\* parseInt(x): x is converted to a string, its decimal digits are read
parseInt(x) == DigitsToNumber(NumberToString(x))

\* ------------------------------------------------------------ pure helpers
\* variant: content ?? undefined, an empty string is passed on as a text
getAiReviewContent_Nullish(content) ==
  IF content.kind = "null" THEN [absent |-> TRUE, text |-> content]
  ELSE [absent |-> FALSE, text |-> content]

\* chatCompletion.choices[0].message.content || undefined ; "absent" = undefined
getAiReviewContent(content) ==
  IF content.kind \in {"null", "empty"} THEN [absent |-> TRUE, text |-> content]
  ELSE [absent |-> FALSE, text |-> content]

\* JSON.parse(text): throws a SyntaxError unless the text is valid JSON
JSONparse(text) ==
  IF text.kind = "text" /\ text.valid
    THEN [threw |-> FALSE, value |-> text.value]
    ELSE [threw |-> TRUE, value |-> JsonNull]

\* variant: prCommits[0].sha, the first entry instead of the last
LastCommit_First(prCommits) ==
  IF Len(prCommits) = 0 THEN [threw |-> TRUE, sha |-> "none"]
  ELSE [threw |-> FALSE, sha |-> prCommits[1].sha]

\* variant: prCommits[prCommits.length - 1]?.sha, undefined on an empty list
LastCommit_Optional(prCommits) ==
  IF Len(prCommits) = 0 THEN [threw |-> FALSE, sha |-> "undefined"]
  ELSE [threw |-> FALSE, sha |-> prCommits[Len(prCommits)].sha]

\* prCommits[prCommits.length - 1].sha ; throws on an empty list
LastCommit(prCommits) ==
  IF Len(prCommits) = 0 THEN [threw |-> TRUE, sha |-> "none"]
  ELSE [threw |-> FALSE, sha |-> prCommits[Len(prCommits)].sha]

\* The commentData object built for one review of one file
CommentData(file, review, commit) ==
  [body |-> review.reviewComment, commit_id |-> commit,
   path |-> file.fileName, line |-> parseInt(review.lineNumber)]

\* Evaluating the catch block's logging statements throws a TypeError when
\* error.response.data exists and has no errors property (undefined[0]).
CatchThrows(error) ==
  error.hasResponse /\ error.hasData /\ ~error.hasErrors

\* Where the nested for-of loops stand next, from file index fi and review
\* index ri: at a review to post, past the last file, or at a TypeError
\* (reviewFiles is null, files is not iterable, file.reviews is not iterable).
RECURSIVE LoopFrom(_, _, _)
LoopFrom(files, fi, ri) ==
  IF fi > Len(files) THEN [kind |-> "done", fi |-> fi, ri |-> ri]
  ELSE IF ~files[fi].hasReviews THEN [kind |-> "throw", fi |-> fi, ri |-> ri]
  ELSE IF ri <= Len(files[fi].reviews) THEN [kind |-> "post", fi |-> fi, ri |-> ri]
  ELSE LoopFrom(files, fi + 1, 1)

\* variant: the first file entry is read before the loops, which throws on
\* an empty files array
LoopStep_FirstFile(rf, fi, ri) ==
  IF ~rf.isObject \/ ~rf.hasFiles \/ Len(rf.files) = 0
    THEN [kind |-> "throw", fi |-> fi, ri |-> ri]
    ELSE LoopFrom(rf.files, fi, ri)

LoopStep(rf, fi, ri) ==
  IF ~rf.isObject \/ ~rf.hasFiles THEN [kind |-> "throw", fi |-> fi, ri |-> ri]
  ELSE LoopFrom(rf.files, fi, ri)

Requests == {"diff", "comments", "model", "commits"}

\* ------------------------------------------------------------------- state
VARIABLES
  unhandledRejections, \* runtime mode for unhandled promise rejections
  existingComments,    \* line comments present on the pull request
  proc,                \* "running" | "crashed" (ended by an unhandled rejection)
                       \* | "exited" (nothing left to wait for)
  exitStatus,          \* "none" while running, then "success" or "error"
  logged,              \* what the top-level catch handler passed to console.error
  pc,                  \* where main is suspended, or how its promise settled
  failure,             \* what main's promise rejected with
  hostInFlight,        \* hosting-API requests issued and not yet settled
  modelInFlight,       \* the model-service request is outstanding
  issued,              \* every request issued so far, in order
  posts,               \* commentData of every comment-creation request, in order
  prompt,              \* the string createPrompt returned
  ignorePromise,       \* the promise createIgnorePrReviewsPrompt() returned
  modelContent,        \* message.content the model service answered with
  parsed,              \* JSON.parse has been called
  reviewFiles,         \* the value JSON.parse returned
  prCommits,           \* the commit list received
  lastCommit,          \* sha used as commit_id
  pos,                 \* <<file index, review index>> of the post in flight
  postFailed,          \* some comment-creation request has failed
  outcome              \* how each single request of the run has settled so far

vars == << unhandledRejections, existingComments, proc, exitStatus, logged, pc, failure,
           hostInFlight, modelInFlight, issued, posts, prompt, ignorePromise,
           modelContent, parsed, reviewFiles, prCommits, lastCommit, pos,
           postFailed, outcome >>

NoContent == [kind |-> "none", valid |-> FALSE, value |-> JsonNull]

Init ==
  /\ unhandledRejections \in RejectionModes
  /\ existingComments \in CommentLists
  /\ proc = "running"
  /\ exitStatus = "none"
  /\ logged = << >>
  /\ pc = "init"
  /\ failure = "none"
  /\ hostInFlight = {}
  /\ modelInFlight = FALSE
  /\ issued = << >>
  /\ posts = << >>
  /\ prompt = << >>
  /\ ignorePromise = [state |-> "none", value |-> << >>]
  /\ modelContent = NoContent
  /\ parsed = FALSE
  /\ reviewFiles = JsonNull
  /\ prCommits = << >>
  /\ lastCommit = "none"
  /\ pos = <<0, 0>>
  /\ postFailed = FALSE
  /\ outcome = [r \in Requests |-> "none"]

\* main's promise rejects with cause e
Reject(e) ==
  /\ pc' = "rejected"
  /\ failure' = e

\* main().catch(console.error): the handler runs in the turn in which main's
\* promise rejects and logs the cause; it sets no exit code
TopLevelCatch ==
  logged' = IF pc' = "rejected" /\ pc # "rejected"
              THEN Append(logged, failure')
              ELSE logged

\* ----------------------------------------------------------------- actions
\* main() is called: getPullRequestDiff issues the diff request
MainStart ==
  /\ proc = "running" /\ pc = "init"
  /\ pc' = "awaitDiff"
  /\ hostInFlight' = hostInFlight \cup {"diff"}
  /\ issued' = Append(issued, "diff")
  /\ outcome' = [outcome EXCEPT !["diff"] = "pending"]
  /\ UNCHANGED << exitStatus, unhandledRejections, existingComments, proc, failure,
                  modelInFlight, posts, prompt, ignorePromise, modelContent,
                  parsed, reviewFiles, prCommits, lastCommit, pos, postFailed >>
  /\ TopLevelCatch

\* variant: a failed diff request is issued a second time before giving up
DiffFail_Retry ==
  /\ proc = "running" /\ pc = "awaitDiff"
  /\ IF Len(issued) < 2
       THEN /\ issued' = Append(issued, "diff")
            /\ UNCHANGED << pc, failure, hostInFlight, outcome >>
       ELSE /\ hostInFlight' = hostInFlight \ {"diff"}
            /\ outcome' = [outcome EXCEPT !["diff"] = "failed"]
            /\ Reject("diff")
            /\ UNCHANGED issued
  /\ UNCHANGED << exitStatus, unhandledRejections, existingComments, proc,
                  modelInFlight, posts, prompt, ignorePromise, modelContent,
                  parsed, reviewFiles, prCommits, lastCommit, pos, postFailed >>
  /\ TopLevelCatch

\* the diff request fails: main rejects
DiffFail ==
  /\ proc = "running" /\ pc = "awaitDiff"
  /\ hostInFlight' = hostInFlight \ {"diff"}
  /\ outcome' = [outcome EXCEPT !["diff"] = "failed"]
  /\ Reject("diff")
  /\ UNCHANGED << exitStatus, unhandledRejections, existingComments, proc, modelInFlight,
                  issued, posts, prompt, ignorePromise, modelContent, parsed,
                  reviewFiles, prCommits, lastCommit, pos, postFailed >>
  /\ TopLevelCatch

\* the diff arrives: createPrompt calls createIgnorePrReviewsPrompt(), which
\* issues the comment-list request and returns a pending promise; the prompt
\* is built from that return value; getAiReviewContent issues the model request
DiffOk ==
  /\ proc = "running" /\ pc = "awaitDiff"
  /\ ignorePromise' = PendingPromise
  /\ prompt' = createPrompt(codeDiffText, "Japanese", PendingPromise)
  /\ hostInFlight' = (hostInFlight \ {"diff"}) \cup {"comments"}
  /\ modelInFlight' = TRUE
  /\ issued' = issued \o <<"comments", "model">>
  /\ outcome' = [outcome EXCEPT !["diff"] = "ok", !["comments"] = "pending",
                                !["model"] = "pending"]
  /\ pc' = "awaitModel"
  /\ UNCHANGED << exitStatus, unhandledRejections, existingComments, proc, failure, posts,
                  modelContent, parsed, reviewFiles, prCommits, lastCommit,
                  pos, postFailed >>
  /\ TopLevelCatch

\* the comment-list request succeeds: the floating promise fulfils
CommentsOk ==
  /\ proc = "running" /\ "comments" \in hostInFlight
  /\ hostInFlight' = hostInFlight \ {"comments"}
  /\ ignorePromise' = [state |-> "fulfilled", value |-> IgnorePromptText(existingComments)]
  /\ outcome' = [outcome EXCEPT !["comments"] = "ok"]
  /\ UNCHANGED << exitStatus, unhandledRejections, existingComments, proc, pc, failure,
                  modelInFlight, issued, posts, prompt, modelContent, parsed,
                  reviewFiles, prCommits, lastCommit, pos, postFailed >>
  /\ TopLevelCatch

\* the comment-list request fails: the floating promise rejects with no
\* handler attached; the runtime ends the process or prints a warning
CommentsFail ==
  /\ proc = "running" /\ "comments" \in hostInFlight
  /\ hostInFlight' = hostInFlight \ {"comments"}
  /\ ignorePromise' = [state |-> "rejected", value |-> << >>]
  /\ outcome' = [outcome EXCEPT !["comments"] = "failed"]
  /\ proc' = IF unhandledRejections = "throw" THEN "crashed" ELSE "running"
  /\ exitStatus' = IF unhandledRejections = "throw" THEN "error" ELSE exitStatus
  /\ UNCHANGED << unhandledRejections, existingComments, pc, failure,
                  modelInFlight, issued, posts, prompt, modelContent, parsed,
                  reviewFiles, prCommits, lastCommit, pos, postFailed >>
  /\ TopLevelCatch

\* variant: the model failure is swallowed and an empty review is published
ModelFail_Swallowed ==
  /\ proc = "running" /\ pc = "awaitModel"
  /\ modelInFlight' = FALSE
  /\ outcome' = [outcome EXCEPT !["model"] = "failed", !["commits"] = "pending"]
  /\ hostInFlight' = hostInFlight \cup {"commits"}
  /\ issued' = Append(issued, "commits")
  /\ pc' = "awaitCommits"
  /\ UNCHANGED << exitStatus, unhandledRejections, existingComments, proc, failure, posts,
                  prompt, ignorePromise, modelContent, parsed, reviewFiles,
                  prCommits, lastCommit, pos, postFailed >>
  /\ TopLevelCatch

\* the model request fails: main rejects
ModelFail ==
  /\ proc = "running" /\ pc = "awaitModel"
  /\ modelInFlight' = FALSE
  /\ outcome' = [outcome EXCEPT !["model"] = "failed"]
  /\ Reject("model")
  /\ UNCHANGED << exitStatus, unhandledRejections, existingComments, proc, hostInFlight,
                  issued, posts, prompt, ignorePromise, modelContent, parsed,
                  reviewFiles, prCommits, lastCommit, pos, postFailed >>
  /\ TopLevelCatch

\* the model answers: absent content ends main; otherwise the text is parsed
\* and postReviewComments issues the commit-list request
ModelOk ==
  /\ proc = "running" /\ pc = "awaitModel"
  /\ \E content \in Contents :
       LET reviewJson == getAiReviewContent(content)
           result == JSONparse(reviewJson.text)
       IN /\ modelContent' = content
          /\ modelInFlight' = FALSE
          /\ IF reviewJson.absent
               THEN /\ pc' = "fulfilled"
                    /\ outcome' = [outcome EXCEPT !["model"] = "ok"]
                    /\ UNCHANGED << failure, parsed, reviewFiles, hostInFlight, issued >>
               ELSE /\ parsed' = TRUE
                    /\ IF result.threw
                         THEN /\ Reject("SyntaxError")
                              /\ outcome' = [outcome EXCEPT !["model"] = "ok"]
                              /\ UNCHANGED << reviewFiles, hostInFlight, issued >>
                         ELSE /\ reviewFiles' = result.value
                              /\ hostInFlight' = hostInFlight \cup {"commits"}
                              /\ issued' = Append(issued, "commits")
                              /\ outcome' = [outcome EXCEPT !["model"] = "ok",
                                                            !["commits"] = "pending"]
                              /\ pc' = "awaitCommits"
                              /\ UNCHANGED failure
  /\ UNCHANGED << exitStatus, unhandledRejections, existingComments, proc, posts, prompt,
                  ignorePromise, prCommits, lastCommit, pos, postFailed >>
  /\ TopLevelCatch

\* The for-of loops run from (fi, ri) with commit id `commit` until the next
\* await: a comment-creation request is issued, the loops end, or they throw.
RunLoop(fi, ri, commit) ==
  LET step == LoopStep(reviewFiles, fi, ri)
  IN /\ pos' = <<step.fi, step.ri>>
     /\ CASE step.kind = "post" ->
               LET file == reviewFiles.files[step.fi]
                   review == file.reviews[step.ri]
               IN /\ posts' = Append(posts, CommentData(file, review, commit))
                  /\ issued' = Append(issued, "post")
                  /\ hostInFlight' = (hostInFlight \ {"commits", "post"}) \cup {"post"}
                  /\ pc' = "awaitPost"
                  /\ UNCHANGED failure
          [] step.kind = "done" ->
               /\ pc' = "fulfilled"
               /\ hostInFlight' = hostInFlight \ {"commits", "post"}
               /\ UNCHANGED << posts, issued, failure >>
          [] step.kind = "throw" ->
               /\ Reject("TypeError:reviewFiles")
               /\ hostInFlight' = hostInFlight \ {"commits", "post"}
               /\ UNCHANGED << posts, issued >>

\* the commit-list request fails: postReviewComments, then main, rejects
CommitsFail ==
  /\ proc = "running" /\ pc = "awaitCommits"
  /\ hostInFlight' = hostInFlight \ {"commits"}
  /\ outcome' = [outcome EXCEPT !["commits"] = "failed"]
  /\ Reject("commits")
  /\ UNCHANGED << exitStatus, unhandledRejections, existingComments, proc, modelInFlight,
                  issued, posts, prompt, ignorePromise, modelContent, parsed,
                  reviewFiles, prCommits, lastCommit, pos, postFailed >>
  /\ TopLevelCatch

\* the commit list arrives: lastCommit is read, then the loops start
CommitsOk ==
  /\ proc = "running" /\ pc = "awaitCommits"
  /\ \E commits \in CommitLists :
       LET last == LastCommit(commits)
       IN /\ prCommits' = commits
          /\ outcome' = [outcome EXCEPT !["commits"] = "ok"]
          /\ IF last.threw
               THEN /\ Reject("TypeError:sha")
                    /\ hostInFlight' = hostInFlight \ {"commits"}
                    /\ UNCHANGED << lastCommit, posts, issued, pos >>
               ELSE /\ lastCommit' = last.sha
                    /\ RunLoop(1, 1, last.sha)
  /\ UNCHANGED << exitStatus, unhandledRejections, existingComments, proc, modelInFlight,
                  prompt, ignorePromise, modelContent, parsed, reviewFiles,
                  postFailed >>
  /\ TopLevelCatch

\* a comment-creation request succeeds: the loops go on
PostOk ==
  /\ proc = "running" /\ pc = "awaitPost"
  /\ RunLoop(pos[1], pos[2] + 1, lastCommit)
  /\ UNCHANGED << exitStatus, unhandledRejections, existingComments, proc, modelInFlight,
                  prompt, ignorePromise, modelContent, parsed, reviewFiles,
                  prCommits, lastCommit, postFailed, outcome >>
  /\ TopLevelCatch

\* a comment-creation request fails: the catch block logs; if logging throws,
\* the TypeError leaves postReviewComments, otherwise the loops go on
PostFail ==
  /\ proc = "running" /\ pc = "awaitPost"
  /\ postFailed' = TRUE
  /\ \E error \in PostErrors :
       IF CatchThrows(error)
         THEN /\ Reject("TypeError:errors")
              /\ hostInFlight' = hostInFlight \ {"post"}
              /\ UNCHANGED << posts, issued, pos >>
         ELSE RunLoop(pos[1], pos[2] + 1, lastCommit)
  /\ UNCHANGED << exitStatus, unhandledRejections, existingComments, proc, modelInFlight,
                  prompt, ignorePromise, modelContent, parsed, reviewFiles,
                  prCommits, lastCommit, outcome >>
  /\ TopLevelCatch

\* main has settled and no request is outstanding: the event loop is empty and
\* the process exits; no code sets process.exitCode, so the status is success
ProcessExit ==
  /\ proc = "running"
  /\ pc \in {"fulfilled", "rejected"}
  /\ hostInFlight = {} /\ ~modelInFlight
  /\ proc' = "exited"
  /\ exitStatus' = "success"
  /\ UNCHANGED << unhandledRejections, existingComments, logged, pc, failure,
                  hostInFlight, modelInFlight, issued, posts, prompt,
                  ignorePromise, modelContent, parsed, reviewFiles, prCommits,
                  lastCommit, pos, postFailed, outcome >>

Next ==
  \/ MainStart
  \/ DiffFail
  \/ DiffOk
  \/ CommentsOk
  \/ CommentsFail
  \/ ModelFail
  \/ ModelOk
  \/ CommitsFail
  \/ CommitsOk
  \/ PostOk
  \/ PostFail
  \/ ProcessExit

Spec == Init /\ [][Next]_vars

\* ------------------------------------------------------- claim vocabulary
\* main's promise has settled
Settled == pc \in {"fulfilled", "rejected"}

\* the decoded model output has the shape of a ReviewSet
WellFormed(rf) ==
  /\ rf.isObject
  /\ rf.hasFiles
  /\ \A i \in DOMAIN rf.files : rf.files[i].hasReviews

\* the text the model returned is not JSON or is JSON of another shape
Malformed(content) ==
  /\ content.kind = "text"
  /\ ~content.valid \/ ~WellFormed(content.value)

\* <<file, review>> for every LineReview, file by file, up to the first
\* entry that has no reviews array
RECURSIVE FlatReviews(_)
FlatReviews(files) ==
  IF Len(files) = 0 \/ ~Head(files).hasReviews THEN << >>
  ELSE [i \in 1..Len(Head(files).reviews) |->
          [file |-> Head(files), review |-> Head(files).reviews[i]]]
       \o FlatReviews(Tail(files))

\* the loops of postReviewComments have been entered with a ReviewSet
Publishing == lastCommit # "none" /\ WellFormed(reviewFiles)

\* C1: when main has settled after publishing a ReviewSet with N LineReview
\* entries, exactly N comment-creation requests were issued, one per
\* LineReview, in file-then-review order, whatever requests failed.
C1_ExactlyNPostsInOrder ==
  (Settled /\ Publishing) =>
     /\ Len(posts) = Len(FlatReviews(reviewFiles.files))
     /\ \A i \in DOMAIN posts :
          /\ posts[i].path = FlatReviews(reviewFiles.files)[i].file.fileName
          /\ posts[i].body = FlatReviews(reviewFiles.files)[i].review.reviewComment

\* C2: once a comment-creation request has failed, with whatever error shape,
\* main does not reject, and when it completes every LineReview was posted.
C2_PostFailureIsCaught ==
  (postFailed /\ Publishing) =>
     /\ pc # "rejected"
     /\ failure = "none"
     /\ pc = "fulfilled" => Len(posts) = Len(FlatReviews(reviewFiles.files))

\* C3: malformed model output leads to zero comment-creation requests and
\* never to a successful completion.
C3_MalformedPostsNothing ==
  Malformed(modelContent) =>
     /\ posts = << >>
     /\ "post" \notin {issued[i] : i \in DOMAIN issued}
     /\ pc # "fulfilled"

\* the tokens of the de-duplication clause present in a string
ClauseTokens(str) ==
  { i \in DOMAIN str : str[i] = IgnoreHeader \/ str[i].kind = "item" }

\* C4: the prompt sent to the model has no de-duplication clause when the pull
\* request has no comments, and otherwise has the clause header once and each
\* existing comment exactly once, with line-or-original-line as line number.
C4_PromptDedupClause ==
  (prompt # << >>) =>
     IF Len(existingComments) = 0
       THEN ClauseTokens(prompt) = {}
       ELSE /\ Cardinality({i \in DOMAIN prompt : prompt[i] = IgnoreHeader}) = 1
            /\ \A k \in DOMAIN existingComments :
                 Cardinality({ i \in DOMAIN prompt :
                    prompt[i] = Item(existingComments[k].path,
                                     CommentLine(existingComments[k]),
                                     existingComments[k].body) }) = 1

\* C5: at most one hosting-API request is in flight at any moment.
C5_OneHostRequestInFlight == Cardinality(hostInFlight) <= 1

\* C6: a failed diff fetch, comment-list fetch or commit-list fetch aborts the
\* run with a failure; no later stage is started and nothing is posted.
C6_UpstreamFailureIsFatal ==
  /\ (outcome["diff"] = "failed" \/ outcome["commits"] = "failed") =>
        (pc = "rejected" /\ posts = << >>)
  /\ outcome["comments"] = "failed" =>
        /\ pc = "rejected" \/ proc = "crashed"
        /\ outcome["commits"] = "none"
        /\ posts = << >>

\* C7: when the model answers with null or empty content, main completes
\* without raising, nothing was parsed, no commit list was requested and no
\* comment-creation request was issued.
C7_AbsentContentIsNoOp ==
  modelContent.kind \in {"null", "empty"} =>
     /\ pc = "fulfilled"
     /\ failure = "none"
     /\ ~parsed
     /\ outcome["commits"] = "none"
     /\ posts = << >>

C7_Witness ==
  /\ modelContent = ContentEmpty
  /\ pc = "fulfilled"
  /\ outcome["model"] = "ok"

\* C8: the model request is issued only after the diff fetch succeeded, the
\* commit-list fetch only after the model returned content that was parsed,
\* a comment-creation request only after the commit list was retrieved; after
\* a failed diff fetch or model request no later request is issued and nothing
\* is posted.
C8_LinearFailFast ==
  /\ outcome["model"] # "none" => outcome["diff"] = "ok"
  /\ outcome["commits"] # "none" =>
        /\ outcome["model"] = "ok"
        /\ parsed
        /\ modelContent.kind = "text" /\ modelContent.valid
  /\ posts # << >> => outcome["commits"] = "ok"
  /\ outcome["diff"] = "failed" =>
        (pc = "rejected" /\ issued = <<"diff">> /\ posts = << >>)
  /\ outcome["model"] = "failed" =>
        /\ pc = "rejected"
        /\ issued[Len(issued)] = "model"
        /\ outcome["commits"] = "none"
        /\ posts = << >>

C8_Witness ==
  /\ outcome["model"] = "failed"
  /\ pc = "rejected"
  /\ failure = "model"
  /\ outcome["comments"] = "ok"

\* C9: the i-th comment-creation request carries the reviewComment, fileName
\* and lineNumber of the i-th LineReview and the sha of the last entry of the
\* commit list; the commit list is requested once, before every post.
C9_PostPayload ==
  /\ \A i \in DOMAIN posts :
       LET fr == FlatReviews(reviewFiles.files)
       IN /\ i <= Len(fr)
          /\ posts[i].body = fr[i].review.reviewComment
          /\ posts[i].path = fr[i].file.fileName
          /\ posts[i].line = fr[i].review.lineNumber
          /\ Len(prCommits) > 0
          /\ posts[i].commit_id = prCommits[Len(prCommits)].sha
  /\ posts # << >> =>
       /\ Cardinality({k \in DOMAIN issued : issued[k] = "commits"}) = 1
       /\ \A k, m \in DOMAIN issued :
            (issued[k] = "commits" /\ issued[m] = "post") => k < m
       /\ Cardinality({m \in DOMAIN issued : issued[m] = "post"}) = Len(posts)

C9_Witness ==
  /\ Len(posts) = 2
  /\ posts[1].path # posts[2].path
  /\ posts[1].line # posts[2].line
  /\ Len(prCommits) = 2
  /\ pc = "fulfilled"

\* C10: if the commit list cannot be retrieved or is empty, main rejects and
\* no comment-creation request is issued, whatever the ReviewSet.
C10_NoCommitNoPost ==
  (outcome["commits"] = "failed" \/ (outcome["commits"] = "ok" /\ Len(prCommits) = 0)) =>
     /\ pc = "rejected"
     /\ failure \in {"commits", "TypeError:sha"}
     /\ posts = << >>
     /\ "post" \notin {issued[k] : k \in DOMAIN issued}

C10_Witness ==
  /\ outcome["commits"] = "ok"
  /\ Len(prCommits) = 0
  /\ WellFormed(reviewFiles)
  /\ Len(reviewFiles.files) = 0
  /\ pc = "rejected"

\* the model returned the serialisation of a ReviewSet whose files are empty
EmptyReviewSet ==
  /\ modelContent.kind = "text" /\ modelContent.valid
  /\ WellFormed(modelContent.value)
  /\ Len(modelContent.value.files) = 0

\* C11: a ReviewSet with an empty files sequence results in zero
\* comment-creation requests, and once a non-empty commit list has arrived
\* main has completed without raising.
C11_EmptyFilesPostsNothing ==
  EmptyReviewSet =>
     /\ posts = << >>
     /\ "post" \notin hostInFlight
     /\ (outcome["commits"] = "ok" /\ Len(prCommits) > 0) =>
           (pc = "fulfilled" /\ failure = "none")

C11_Witness ==
  /\ EmptyReviewSet
  /\ outcome["commits"] = "ok"
  /\ Len(prCommits) > 0
  /\ pc = "fulfilled"

\* a fatal failure has reached the top level
FatalFailure ==
  /\ pc = "rejected"
  /\ failure \in {"diff", "model", "SyntaxError", "TypeError:reviewFiles",
                  "commits", "TypeError:sha"}

\* C12: whenever a fatal failure reaches the top level it is logged, and the
\* process never ends with a success status.
C12_FatalFailureExitsInError ==
  FatalFailure =>
     /\ logged = <<failure>>
     /\ proc = "exited" => exitStatus = "error"

\* C13: the comment-list fetch has completed when the prompt is built, and
\* the model request is never outstanding together with the comment-list
\* fetch.
C13_PromptBuiltFromFetchedComments ==
  /\ prompt # << >> => outcome["comments"] = "ok"
  /\ modelInFlight => "comments" \notin hostInFlight

\* C14: createIgnorePrReviewsPrompt resolves to the empty string when the API
\* lists no comment, and otherwise to the clause header followed by one item
\* per listed comment, in the order listed, with the comment's path, body and
\* its current line when present, else its original line.
C14_IgnorePromptValue ==
  ignorePromise.state = "fulfilled" =>
     LET v == ignorePromise.value
         n == Len(existingComments)
     IN IF n = 0
          THEN v = << >>
          ELSE /\ Len(v) = n + 1
               /\ v[1] = IgnoreHeader
               /\ \A k \in 1..n :
                    /\ v[k + 1].kind = "item"
                    /\ v[k + 1].path = existingComments[k].path
                    /\ v[k + 1].body = existingComments[k].body
                    /\ existingComments[k].line # 0 =>
                          v[k + 1].line = existingComments[k].line
                    /\ existingComments[k].line = 0 =>
                          v[k + 1].line = existingComments[k].original_line

C14_Witness ==
  /\ ignorePromise.state = "fulfilled"
  /\ Len(existingComments) = 2
  /\ existingComments[1].line # 0
  /\ existingComments[1].line # existingComments[1].original_line
  /\ existingComments[2].line = 0

\* how many times request r has been issued
TimesIssued(r) == Cardinality({k \in DOMAIN issued : issued[k] = r})

\* the pipeline stage main stands at
StageOf(p) ==
  CASE p = "init" -> 0
    [] p = "awaitDiff" -> 1
    [] p = "awaitModel" -> 2
    [] p = "awaitCommits" -> 3
    [] p = "awaitPost" -> 4
    [] OTHER -> 5

\* C15: the diff fetch, the comment-list fetch, the model request and the
\* commit-list fetch are each issued at most once; a request that has settled
\* is never issued again and main never steps back to an earlier stage.
C15_EachRequestOnce ==
  /\ [](\A r \in Requests : TimesIssued(r) <= 1)
  /\ [][ /\ \A r \in Requests :
              outcome[r] \in {"ok", "failed"} => outcome'[r] = outcome[r]
         /\ StageOf(pc') >= StageOf(pc)
         /\ pc \in {"fulfilled", "rejected"} => (pc' = pc /\ issued' = issued) ]_vars

C15_Witness ==
  /\ outcome["comments"] = "failed"
  /\ outcome["commits"] = "failed"
  /\ proc = "exited"

\* Every request that was issued eventually returns, and a turn that can run
\* does run.
FairSpec ==
  /\ Spec
  /\ WF_vars(MainStart)
  /\ WF_vars(DiffOk \/ DiffFail)
  /\ WF_vars(CommentsOk \/ CommentsFail)
  /\ WF_vars(ModelOk \/ ModelFail)
  /\ WF_vars(CommitsOk \/ CommitsFail)
  /\ WF_vars(PostOk \/ PostFail)
  /\ WF_vars(ProcessExit)

\* the run has ended: main's promise has settled or the process was ended
Terminal == Settled \/ proc = "crashed"

\* every run reaches a terminal state
EventuallyTerminal == <>Terminal

\* C16: if every issued request eventually returns, every run of main reaches
\* a terminal state, and when main has settled no request is outstanding.
C16_TerminatesWithNothingOutstanding ==
  /\ <>Terminal
  /\ [](Settled => (hostInFlight = {} /\ ~modelInFlight))

====
